---- MODULE Spec2Model ----
(***************************************************************************)
(* A model of help-lazyload (src/index.js): the lazyLoad() closure, its   *)
(* three visibility strategies ('really-old', 'old', 'new'), the element  *)
(* updater and the page-updated re-scan, driven by the browser's          *)
(* callbacks (animation frames, intersection-observer batches, load       *)
(* events, scrolling and document mutation).                               *)
(***************************************************************************)
EXTENDS Integers, Sequences, FiniteSets, TLC

(***************************************************************************)
(* Bounds of the model.                                                    *)
(***************************************************************************)
\* options.maxFrameCount as passed by the caller (the default is 10)
maxFrameCount == 2
\* most elements the document holds at a time
MaxDocSize == 2
\* most entries the browser keeps queued for one observer callback
MaxQueued == 2
\* most animation-frame callbacks pending at a time
MaxPending == 2

(***************************************************************************)
(* The document fixture: four eligible elements, in document order.        *)
(*   1  <img data-src="a">                                                 *)
(*   2  <img data-src="b" data-srcset="t" data-lazyload>                  *)
(*   3  <img data-src="">                                                  *)
(*   4  <source data-srcset="s"> inside a <picture>                        *)
(***************************************************************************)
Elements == 1..4
NULL == "<null>"
UNDEF == 0

tagName(e) == IF e = 4 THEN "SOURCE" ELSE "IMG"

\* the attributes an element is inserted with; it matches options.elements
Markup(e) ==
  [dsrc       |-> CASE e = 1 -> "a" [] e = 2 -> "b" [] e = 3 -> "" [] OTHER -> NULL,
   dsrcset    |-> CASE e = 2 -> "t" [] e = 4 -> "s" [] OTHER -> NULL,
   dlazy      |-> IF e = 2 THEN "" ELSE NULL,
   src        |-> NULL,
   srcset     |-> NULL,
   dlazyloaded|-> NULL,
   lazyloaded |-> FALSE,
   listener   |-> FALSE,
   loading    |-> FALSE]

\* options.elements: the selector of eligible elements
MatchesSelector(el, tag) ==
  \/ tag \in {"IMG", "IFRAME", "VIDEO"} /\ el.dsrc # NULL
  \/ tag \in {"IMG", "SOURCE"} /\ el.dsrcset # NULL
  \/ el.dlazy # NULL

(***************************************************************************)
(* Layout: every box is 1 x 1; elements 1 and 2 sit side by side in one   *)
(* row, 3 and the <picture> of 4 in the next row; the window scrolls      *)
(* vertically.  At scrollY = 0 the first row touches the bottom edge of   *)
(* the viewport and the second is out of it; at 1 the first row is in     *)
(* view; at 2 the first row touches the top edge and the second is in.    *)
(***************************************************************************)
innerWidth == 2
innerHeight == 1
ScrollOffsets == 0..2
DocTop(e) == IF e \in {1, 2} THEN 1 ELSE 2
DocLeft(e) == IF e \in {1, 3} THEN 0 ELSE 1

BoxRect(e, y) ==
  [top |-> DocTop(e) - y, bottom |-> DocTop(e) - y + 1,
   left |-> DocLeft(e), right |-> DocLeft(e) + 1]
ZeroRect == [top |-> 0, bottom |-> 0, left |-> 0, right |-> 0]

\* element.getBoundingClientRect(): a <source> has no layout box of its own
getBoundingClientRect(e, y) == IF tagName(e) = "SOURCE" THEN ZeroRect ELSE BoxRect(e, y)
\* element.parentNode.getBoundingClientRect(), used for <source>
parentRect(e, y) == BoxRect(e, y)

\* a variant that also accepts a box touching the top edge (bottom >= 0)
_elementInViewport_Edge(e, y) ==
  LET rect == IF tagName(e) = "SOURCE" THEN parentRect(e, y)
              ELSE getBoundingClientRect(e, y)
  IN  /\ rect.bottom >= 0
      /\ rect.right > 0
      /\ rect.left < innerWidth
      /\ rect.top < innerHeight

_elementInViewport(e, y) ==
  LET rect == IF tagName(e) = "SOURCE" THEN parentRect(e, y)
              ELSE getBoundingClientRect(e, y)
  IN  /\ rect.bottom > 0
      /\ rect.right > 0
      /\ rect.left < innerWidth
      /\ rect.top < innerHeight

\* what the browser reports to an IntersectionObserver (rootMargin '0px'):
\* the ratio is positive when the target's own box overlaps the viewport with
\* positive area; isIntersecting also holds for an edge-adjacent box
HasBox(e) == tagName(e) # "SOURCE"
RatioPositive(e, y) ==
  LET r == getBoundingClientRect(e, y)
  IN  HasBox(e) /\ r.bottom > 0 /\ r.top < innerHeight /\ r.right > 0 /\ r.left < innerWidth
IsIntersecting(e, y) ==
  LET r == getBoundingClientRect(e, y)
  IN  HasBox(e) /\ r.bottom >= 0 /\ r.top <= innerHeight /\ r.right >= 0 /\ r.left <= innerWidth

(***************************************************************************)
(* The element updater.                                                    *)
(***************************************************************************)
Truthy(v) == v # NULL /\ v # ""

\* a variant that removes src where it should remove data-src
_removeDataAttrs_Typo(el) == [el EXCEPT !.src = NULL, !.dsrcset = NULL, !.dlazy = NULL]

_removeDataAttrs(el) == [el EXCEPT !.dsrc = NULL, !.dsrcset = NULL, !.dlazy = NULL]

\* a variant of the listener that forgets to strip
_loaded_NoStrip(el) == [el EXCEPT !.listener = FALSE]

\* the one-shot load listener
_loaded(el) == _removeDataAttrs([el EXCEPT !.listener = FALSE])

\* an <img> starts a fetch when its src or srcset is written and fires load later
StartsLoad(tag) == tag = "IMG"

_updateElement(el, tag) ==
  LET srcset == el.dsrcset
      src == el.dsrc
      dlazyload == el.dlazy # NULL
      e1 == IF Truthy(srcset)
            THEN [el EXCEPT !.srcset = srcset, !.loading = @ \/ StartsLoad(tag)]
            ELSE el
      e2 == IF Truthy(src)
            THEN [e1 EXCEPT !.src = src, !.loading = @ \/ StartsLoad(tag)]
            ELSE e1
  IN  IF dlazyload
      THEN _removeDataAttrs([e2 EXCEPT !.dlazyloaded = "", !.listener = FALSE])
      ELSE e2

(***************************************************************************)
(* State.  The closure variables of lazyLoad() keep their names; the rest  *)
(* is the document, the environment and the browser's pending work.        *)
(***************************************************************************)
VARIABLES
  pc,           \* "start" before the lazyLoad() call, "running" after it
  caps,         \* the environment's capabilities
  doc,          \* the elements in the document
  elem,         \* attributes, expando, listener and fetch state per element
  scrollY,      \* the scroll offset of the window
  els,          \* let els: the working set, UNDEF for a slot set to undefined
  elsLength,    \* let elsLength
  frameCount,   \* let frameCount
  frameLoop,    \* let frameLoop: "undefined", or the state of the handle it holds
  rafPending,   \* number of _setSrcs callbacks the animation-frame scheduler holds
  observer,     \* let observer: "undefined", "active" or "disconnected"
  observed,     \* the targets the current observer observes
  lastRep,      \* per target, the isIntersecting state last reported to the observer
  queued,       \* entries queued for the current observer's callback
  stale,        \* entries a disconnected observer still has queued
  checkType,    \* let checkType
  listening,    \* the page-updated listener is registered
  acts,         \* history: _updateElement calls per element: 0, 1, or 2 for more than one
  everIn,       \* history: the element has overlapped the viewport
  idle,         \* history: frame callbacks without a scan since the last scan, -1 before any
  last,         \* history: the last step: the handler run, whether it raised,
                \* whether it scanned and the idle count before the scan, the
                \* elements it collected and activated, the targets of the
                \* delivered entries with a positive ratio, and whether it
                \* requested an animation frame
  callCaps      \* history: the capabilities at the time of the lazyLoad() call

vars == <<pc, caps, doc, elem, scrollY, els, elsLength, frameCount, frameLoop,
          rafPending, observer, observed, lastRep, queued, stale, checkType,
          listening, acts, everIn, idle, last, callCaps>>

\* the state as one record, for the handlers below to transform
Cur ==
  [caps |-> caps, doc |-> doc, elem |-> elem, scrollY |-> scrollY, els |-> els,
   elsLength |-> elsLength, frameCount |-> frameCount, frameLoop |-> frameLoop,
   rafPending |-> rafPending, observer |-> observer, observed |-> observed,
   lastRep |-> lastRep, queued |-> queued, stale |-> stale, checkType |-> checkType,
   listening |-> listening, acts |-> acts, idle |-> idle,
   exc |-> FALSE, scanned |-> FALSE, gap |-> -1, activated |-> {}, collected |-> {},
   positive |-> {}, scheduled |-> FALSE]

Min(a, b) == IF a < b THEN a ELSE b

\* the box the user sees for an element overlaps the viewport with positive area
InView(e, y) ==
  LET r == BoxRect(e, y)
  IN  r.bottom > 0 /\ r.top < innerHeight /\ r.right > 0 /\ r.left < innerWidth

\* a variant that strips the deferred attributes right after the update
Activate_AndStrip(s, e) ==
  [s EXCEPT !.elem[e] = _removeDataAttrs(_updateElement(@, tagName(e))),
            !.acts[e] = Min(@ + 1, 2),
            !.activated = @ \cup {e}]

\* a call of _updateElement(element) on the live document
Activate(s, e) ==
  [s EXCEPT !.elem[e] = _updateElement(@, tagName(e)),
            !.acts[e] = Min(@ + 1, 2),
            !.activated = @ \cup {e}]

(***************************************************************************)
(* _htmlCollectionToArray(document.querySelectorAll(options.elements)):    *)
(* the matching elements in document order.                                *)
(***************************************************************************)
RECURSIVE _htmlCollectionToArray(_, _)
_htmlCollectionToArray(matching, i) ==
  IF i > 4 THEN <<>>
  ELSE (IF i \in matching THEN <<i>> ELSE <<>>) \o _htmlCollectionToArray(matching, i + 1)

querySelectorAll(s) ==
  {e \in s.doc : MatchesSelector(s.elem[e], tagName(e))}

(***************************************************************************)
(* _setSrcs, one operator per case of the switch.                          *)
(***************************************************************************)
\* case 'really-old': update and strip every collected element, empty the set
RECURSIVE ReallyOldLoop(_, _)
ReallyOldLoop(s, i) ==
  IF i > s.elsLength THEN s
  ELSE IF s.els[i] # UNDEF
       THEN LET e == s.els[i]
                s1 == Activate(s, e)
            IN  ReallyOldLoop([s1 EXCEPT !.elem[e] = _removeDataAttrs(@)], i + 1)
       ELSE ReallyOldLoop(s, i + 1)

\* a variant that leaves the working set as it is
SetSrcsReallyOld_KeepEls(s) ==
  ReallyOldLoop([s EXCEPT !.elsLength = Len(s.els)], 1)

SetSrcsReallyOld(s) ==
  [ReallyOldLoop([s EXCEPT !.elsLength = Len(s.els)], 1) EXCEPT !.els = <<>>]

\* case 'old', the scan: i is the 1-based position of els[i - 1] of the code.
\* Where the layout-geometry query is missing, _elementInViewport raises a
\* TypeError and the callback ends there.
RECURSIVE ScanLoop(_, _)
ScanLoop(s, i) ==
  IF i > s.elsLength THEN s
  ELSE LET e == s.els[i]
       IN  IF e # UNDEF /\ ~s.elem[e].lazyloaded
           THEN IF ~s.caps.gbcr
                THEN [s EXCEPT !.exc = TRUE]
                ELSE IF _elementInViewport(e, s.scrollY)
                     THEN LET s1 == [s EXCEPT !.els[i] = UNDEF,
                                              !.elem[e].lazyloaded = TRUE,
                                              !.elem[e].listener = TRUE]
                          IN  ScanLoop(Activate(s1, e), i + 1)
                     ELSE ScanLoop(s, i + 1)
           ELSE ScanLoop(s, i + 1)

\* a variant that removes the slot after the one asked for
Splice_Next(a, i) ==
  IF i + 2 > Len(a) THEN a
  ELSE SubSeq(a, 1, i + 1) \o SubSeq(a, i + 3, Len(a))

\* els.splice(i, 1) for the 0-based index i
Splice(a, i) ==
  IF i + 1 > Len(a) THEN a
  ELSE SubSeq(a, 1, i) \o SubSeq(a, i + 2, Len(a))

\* case 'old', "clean up array": i is the 0-based index of the code; an index
\* past the end of the array reads undefined as well
RECURSIVE CleanUp(_, _, _)
CleanUp(a, i, n) ==
  IF i >= n THEN a
  ELSE IF i + 1 > Len(a) \/ a[i + 1] = UNDEF
       THEN CleanUp(Splice(a, i), i + 1, n)
       ELSE CleanUp(a, i + 1, n)

\* window.requestAnimationFrame(_setSrcs)
requestAnimationFrame(s) ==
  [s EXCEPT !.rafPending = @ + 1, !.frameLoop = "pending", !.scheduled = TRUE]

\* a variant that restarts the count at 0 where the code restarts it at -1
SetSrcsOld_ResetZero(s) ==
  LET scan == s.frameCount = maxFrameCount
      s1 == IF scan
            THEN ScanLoop([s EXCEPT !.elsLength = Len(s.els), !.scanned = TRUE,
                                    !.gap = s.idle, !.idle = 0], 1)
            ELSE [s EXCEPT !.idle = IF @ = -1 THEN -1 ELSE @ + 1]
      s2 == IF scan
            THEN LET a == CleanUp(s1.els, 0, s1.elsLength)
                 IN  [s1 EXCEPT !.els = a, !.elsLength = Len(a), !.frameCount = 0]
            ELSE s1
  IN  IF s1.exc THEN s1
      ELSE IF s2.elsLength > 0
           THEN requestAnimationFrame([s2 EXCEPT !.frameCount = @ + 1])
           ELSE s2

\* a variant whose scan does not leave the lazyloaded property on the
\* elements it updates
SetSrcsOld_NoFlag(s) ==
  LET scan == s.frameCount = maxFrameCount
      s0 == IF scan
            THEN ScanLoop([s EXCEPT !.elsLength = Len(s.els), !.scanned = TRUE,
                                    !.gap = s.idle, !.idle = 0], 1)
            ELSE [s EXCEPT !.idle = IF @ = -1 THEN -1 ELSE @ + 1]
      s1 == [s0 EXCEPT !.elem = [e \in Elements |->
                                   IF e \in s0.activated
                                   THEN [s0.elem[e] EXCEPT !.lazyloaded = FALSE]
                                   ELSE s0.elem[e]]]
      s2 == IF scan
            THEN LET a == CleanUp(s1.els, 0, s1.elsLength)
                 IN  [s1 EXCEPT !.els = a, !.elsLength = Len(a), !.frameCount = -1]
            ELSE s1
  IN  IF s1.exc THEN s1
      ELSE IF s2.elsLength > 0
           THEN requestAnimationFrame([s2 EXCEPT !.frameCount = @ + 1])
           ELSE s2

SetSrcsOld(s) ==
  LET scan == s.frameCount = maxFrameCount
      s1 == IF scan
            THEN ScanLoop([s EXCEPT !.elsLength = Len(s.els), !.scanned = TRUE,
                                    !.gap = s.idle, !.idle = 0], 1)
            ELSE [s EXCEPT !.idle = IF @ = -1 THEN -1 ELSE @ + 1]
      s2 == IF scan
            THEN LET a == CleanUp(s1.els, 0, s1.elsLength)
                 IN  [s1 EXCEPT !.els = a, !.elsLength = Len(a), !.frameCount = -1]
            ELSE s1
  IN  IF s1.exc THEN s1
      ELSE IF s2.elsLength > 0
           THEN requestAnimationFrame([s2 EXCEPT !.frameCount = @ + 1])
           ELSE s2

\* case 'new': a fresh observer observes every element not marked lazyloaded
RECURSIVE ObserveLoop(_, _)
ObserveLoop(s, i) ==
  IF i > s.elsLength THEN s
  ELSE LET e == s.els[i]
       IN  IF e # UNDEF /\ ~s.elem[e].lazyloaded
           THEN ObserveLoop([s EXCEPT !.observed = @ \cup {e},
                                      !.lastRep[e] = "none"], i + 1)
           ELSE ObserveLoop(s, i + 1)

SetSrcsNew(s) ==
  ObserveLoop([s EXCEPT !.observer = "active", !.observed = {},
                        !.elsLength = Len(s.els)], 1)

_setSrcs(s) ==
  CASE s.checkType = "really-old" -> SetSrcsReallyOld(s)
    [] s.checkType = "old" -> SetSrcsOld(s)
    [] s.checkType = "new" -> SetSrcsNew(s)
    [] OTHER -> s

(***************************************************************************)
(* _intersection(entries): the observer's callback.                        *)
(***************************************************************************)
\* observer.disconnect()
disconnect(s) == [s EXCEPT !.observer = "disconnected", !.observed = {}]

RECURSIVE EntriesLoop(_, _, _)
EntriesLoop(s, entries, i) ==
  IF i > Len(entries) THEN s
  ELSE LET entry == entries[i]
           e == entry.target
       IN  IF entry.ratioPositive
           THEN LET s1 == [s EXCEPT !.elsLength = @ - 1,
                                    !.observed = @ \ {e},
                                    !.elem[e].listener = TRUE]
                IN  EntriesLoop(Activate(s1, e), entries, i + 1)
           ELSE EntriesLoop(s, entries, i + 1)

Positive(entries) ==
  {entries[i].target : i \in {j \in 1..Len(entries) : entries[j].ratioPositive}}

_intersection(s, entries) ==
  EntriesLoop([(IF s.elsLength = 0 THEN disconnect(s) ELSE s)
                 EXCEPT !.positive = Positive(entries)], entries, 1)

(***************************************************************************)
(* The capability detection of _lazyLoad.                                  *)
(***************************************************************************)
\* typeof document.body.getBoundingClientRect === undefined: typeof yields a
\* string, and no string is identical to the value undefined
TypeofIsUndefined(present) == FALSE

Detect(c) ==
  IF ~c.ael \/ ~c.raf \/ TypeofIsUndefined(c.gbcr) THEN "really-old"
  ELSE IF c.io THEN "new"
  ELSE "old"

(***************************************************************************)
(* _init: tear down, collect, run the strategy once.  keep says whether    *)
(* the entries already queued for the observer being disconnected are      *)
(* still delivered afterwards (disconnect() does not say).                 *)
(***************************************************************************)
\* cancelAnimationFrame(frameLoop) inside try/catch: a ReferenceError where
\* the function is missing, and no effect on a handle that already ran
cancelAnimationFrame(s) ==
  IF s.caps.caf /\ s.frameLoop = "pending"
  THEN [s EXCEPT !.rafPending = @ - 1, !.frameLoop = "cancelled"]
  ELSE s

Teardown(s, keep) ==
  CASE s.checkType = "old" -> cancelAnimationFrame(s)
    [] s.checkType = "new" ->
         IF s.observer = "undefined" THEN s
         ELSE [disconnect(s) EXCEPT
                 !.stale = IF keep /\ s.stale = <<>> THEN s.queued ELSE s.stale,
                 !.queued = <<>>]
    [] OTHER -> s

\* a variant that detects the capabilities again on every run
_init_Redetect(s, keep) ==
  LET s1 == Teardown([s EXCEPT !.checkType = Detect(s.caps)], keep)
      matching == querySelectorAll(s1)
      a == _htmlCollectionToArray(matching, 1)
  IN  _setSrcs([s1 EXCEPT !.els = a, !.elsLength = Len(a),
                          !.frameCount = maxFrameCount, !.collected = matching])

_init(s, keep) ==
  LET s1 == Teardown(s, keep)
      matching == querySelectorAll(s1)
      a == _htmlCollectionToArray(matching, 1)
  IN  _setSrcs([s1 EXCEPT !.els = a, !.elsLength = Len(a),
                          !.frameCount = maxFrameCount, !.collected = matching])

(***************************************************************************)
(* _lazyLoad: detection, first _init, then the re-scan listener.           *)
(***************************************************************************)
\* document.addEventListener(options.pageUpdatedEventName, _init, true), with
\* the default event name; a TypeError where event listening is missing
RegisterRescan(s) ==
  IF s.caps.ael THEN [s EXCEPT !.listening = TRUE] ELSE [s EXCEPT !.exc = TRUE]

_lazyLoad(s) ==
  LET s1 == _init([s EXCEPT !.checkType = Detect(s.caps)], FALSE)
  IN  IF s1.exc THEN s1 ELSE RegisterRescan(s1)

(***************************************************************************)
(* The state machine.                                                      *)
(***************************************************************************)
\* every combination of the four detected capabilities; cancelAnimationFrame
\* is taken to be missing only in environments that poll
Capabilities ==
  {c \in [ael : BOOLEAN, raf : BOOLEAN, gbcr : BOOLEAN, io : BOOLEAN, caf : BOOLEAN] :
     ~c.caf => (c.ael /\ c.raf /\ c.gbcr /\ ~c.io)}

Env(ael, raf, gbcr, io, caf) ==
  [ael |-> ael, raf |-> raf, gbcr |-> gbcr, io |-> io, caf |-> caf]

\* the environments the strategies are run in: a current browser ('new'), one
\* without IntersectionObserver ('old'), the same without cancelAnimationFrame
\* or without getBoundingClientRect, and two old browsers ('really-old'): one
\* without requestAnimationFrame, one without addEventListener
Browsers ==
  { Env(TRUE, TRUE, TRUE, TRUE, TRUE),
    Env(TRUE, TRUE, TRUE, FALSE, TRUE),
    Env(TRUE, TRUE, TRUE, FALSE, FALSE),
    Env(TRUE, TRUE, FALSE, FALSE, TRUE),
    Env(TRUE, FALSE, TRUE, FALSE, TRUE),
    Env(FALSE, FALSE, TRUE, FALSE, TRUE) }

InitIn(environments) ==
  /\ pc = "start"
  /\ caps \in environments
  /\ doc = {}
  /\ elem = [e \in Elements |-> Markup(e)]
  /\ scrollY = 0
  /\ els = <<>>
  /\ elsLength = 0
  /\ frameCount = 0
  /\ frameLoop = "undefined"
  /\ rafPending = 0
  /\ observer = "undefined"
  /\ observed = {}
  /\ lastRep = [e \in Elements |-> "none"]
  /\ queued = <<>>
  /\ stale = <<>>
  /\ checkType = "undefined"
  /\ listening = FALSE
  /\ acts = [e \in Elements |-> 0]
  /\ everIn = [e \in Elements |-> FALSE]
  /\ idle = -1
  /\ last = [op |-> "none", exc |-> FALSE, scanned |-> FALSE, gap |-> -1,
             activated |-> {}, collected |-> {}, positive |-> {},
             scheduled |-> FALSE]
  /\ callCaps = caps

Init == InitIn(Browsers)
InitEnv == InitIn(Capabilities)

\* the state a handler leaves, computed once, becomes the next state
Commit(result, op) ==
  \E s \in {result} :
    /\ caps' = s.caps
    /\ doc' = s.doc
    /\ elem' = s.elem
    /\ scrollY' = s.scrollY
    /\ els' = s.els
    /\ elsLength' = s.elsLength
    /\ frameCount' = s.frameCount
    /\ frameLoop' = s.frameLoop
    /\ rafPending' = s.rafPending
    /\ observer' = s.observer
    /\ observed' = s.observed
    /\ lastRep' = s.lastRep
    /\ queued' = s.queued
    /\ stale' = s.stale
    /\ checkType' = s.checkType
    /\ listening' = s.listening
    /\ acts' = s.acts
    /\ everIn' = [e \in Elements |-> everIn[e] \/ (e \in s.doc /\ InView(e, s.scrollY))]
    /\ idle' = s.idle
    /\ last' = [op |-> op, exc |-> s.exc, scanned |-> s.scanned, gap |-> s.gap,
                activated |-> s.activated, collected |-> s.collected,
                positive |-> s.positive, scheduled |-> s.scheduled]
    /\ callCaps' = IF op = "lazyLoad" THEN caps ELSE callCaps

\* the page calls lazyLoad()
LazyLoad ==
  /\ pc = "start"
  /\ pc' = "running"
  /\ Commit(_lazyLoad(Cur), "lazyLoad")

\* the page dispatches the page-updated event
PageUpdated ==
  /\ pc = "running"
  /\ listening
  /\ stale = <<>>
  /\ \E keep \in BOOLEAN :
       /\ keep => (checkType = "new" /\ queued # <<>> /\ stale = <<>>)
       /\ LET s == _init(Cur, keep)
          IN  /\ s.rafPending <= MaxPending
              /\ Commit(s, "pageUpdated")
  /\ UNCHANGED pc

\* the scheduler runs the oldest pending _setSrcs callback
FrameCallback ==
  /\ rafPending > 0
  /\ LET s0 == [Cur EXCEPT !.rafPending = @ - 1,
                           !.frameLoop = IF rafPending = 1 /\ @ = "pending"
                                         THEN "ran" ELSE @]
     IN  Commit(_setSrcs(s0), "frame")
  /\ UNCHANGED pc

\* the elements of S in document order
RECURSIVE InOrder(_, _)
InOrder(S, i) ==
  IF i > 4 THEN <<>>
  ELSE (IF i \in S THEN <<i>> ELSE <<>>) \o InOrder(S, i + 1)

Reported(e, y) == IF IsIntersecting(e, y) THEN "int" ELSE "out"

\* the browser computes intersections and queues an entry for every observed
\* target whose isIntersecting state changed since the last report
IOSample ==
  /\ observer = "active"
  /\ LET changed == {e \in observed : Reported(e, scrollY) # lastRep[e]}
         order == InOrder(changed, 1)
         entries == [i \in 1..Len(order) |->
                       [target |-> order[i],
                        ratioPositive |-> RatioPositive(order[i], scrollY)]]
     IN  /\ changed # {}
         /\ Len(queued) + Len(entries) <= MaxQueued
         /\ Commit([Cur EXCEPT !.queued = @ \o entries,
                               !.lastRep = [e \in Elements |->
                                              IF e \in changed
                                              THEN Reported(e, scrollY) ELSE @[e]]],
                   "env")
  /\ UNCHANGED pc

\* the browser delivers the queued entries to the callback
IODeliver ==
  /\ queued # <<>>
  /\ Commit(_intersection([Cur EXCEPT !.queued = <<>>], queued), "deliver")
  /\ UNCHANGED pc

\* the browser delivers the batch a disconnected observer still had queued; its
\* notification task was queued before the re-scan, so it runs before the next
\* scroll, insertion or re-scan (their guards)
IODeliverStale ==
  /\ stale # <<>>
  /\ Commit(_intersection([Cur EXCEPT !.stale = <<>>], stale), "deliverStale")
  /\ UNCHANGED pc

\* the fetch of an element completes and its load event fires
LoadEvent(e) ==
  /\ elem[e].loading
  /\ LET el == [elem[e] EXCEPT !.loading = FALSE]
     IN  Commit([Cur EXCEPT !.elem[e] = IF el.listener THEN _loaded(el) ELSE el], "env")
  /\ UNCHANGED pc

\* the user scrolls
Scroll(y) ==
  /\ y # scrollY
  /\ stale = <<>>
  /\ Commit([Cur EXCEPT !.scrollY = y], "env")
  /\ UNCHANGED pc

\* the page inserts an eligible element
InsertElement(e) ==
  /\ e \notin doc
  /\ stale = <<>>
  /\ Cardinality(doc) < MaxDocSize
  /\ Commit([Cur EXCEPT !.doc = @ \cup {e}], "env")
  /\ UNCHANGED pc

\* a polyfill script defines window.IntersectionObserver after the call
LoadPolyfill ==
  /\ pc = "running"
  /\ ~caps.io
  /\ Commit([Cur EXCEPT !.caps.io = TRUE], "env")
  /\ UNCHANGED pc

Next ==
  \/ LazyLoad
  \/ PageUpdated
  \/ FrameCallback
  \/ IOSample
  \/ IODeliver
  \/ IODeliverStale
  \/ \E e \in Elements : LoadEvent(e)
  \/ \E y \in ScrollOffsets : Scroll(y)
  \/ \E e \in Elements : InsertElement(e)

Spec == Init /\ [][Next]_vars

\* capability detection and re-scans over every environment, with a polyfill
\* that may arrive after the call; the browser's callbacks are left pending
NextEnv ==
  \/ LazyLoad
  \/ PageUpdated
  \/ LoadPolyfill
  \/ \E y \in ScrollOffsets : Scroll(y)
  \/ \E e \in Elements : InsertElement(e)

SpecEnv == InitEnv /\ [][NextEnv]_vars

\* the browser runs a pending animation-frame callback at its next frame,
\* computes the intersections of observed targets at every frame, and delivers
\* queued observer entries in a task of their own
Fairness ==
  /\ WF_vars(FrameCallback)
  /\ WF_vars(IOSample)
  /\ WF_vars(IODeliver)
  /\ WF_vars(IODeliverStale)

SpecFair == Init /\ [][Next]_vars /\ Fairness

TypeOK ==
  /\ pc \in {"start", "running"}
  /\ doc \subseteq Elements
  /\ rafPending \in 0..MaxPending
  /\ Len(queued) <= MaxQueued

(***************************************************************************)
(* Properties.                                                             *)
(***************************************************************************)
\* the element references left in the working set
ElsSet == {els[i] : i \in 1..Len(els)} \ {UNDEF}

\* the DOM attributes of an element
Attrs(el) ==
  [dsrc |-> el.dsrc, dsrcset |-> el.dsrcset, dlazy |-> el.dlazy,
   src |-> el.src, srcset |-> el.srcset, dlazyloaded |-> el.dlazyloaded]

\* the element was updated and no load listener is waiting on it any more
Completed(e) == acts[e] >= 1 /\ ~elem[e].listener

\* C1: under 'old' and 'new' an element is activated only at a check at which
\* it intersects the viewport (rectangle test true at the scan, respectively a
\* delivered entry with a positive ratio), and an element that never
\* intersected is never activated; under 'really-old' every collected element
\* is activated in the initializing call, intersecting or not.
C1_ActivationNeedsIntersection ==
  /\ checkType \in {"old", "new"} =>
       /\ \A e \in Elements : acts[e] > 0 => everIn[e]
       /\ checkType = "old" => \A e \in last.activated : InView(e, scrollY)
       /\ checkType = "new" => last.activated \subseteq last.positive
  /\ (checkType = "really-old" /\ last.op \in {"lazyLoad", "pageUpdated"}) =>
       last.activated = last.collected

\* a callback has just activated one element while another, never in view,
\* stays tracked and untouched
C1_Witness ==
  /\ checkType \in {"old", "new"}
  /\ last.op \in {"frame", "deliver"}
  /\ \E e1, e2 \in doc :
       /\ e1 \in last.activated
       /\ acts[e2] = 0 /\ ~everIn[e2] /\ e2 \in ElsSet

\* C2: under 'new' an entry with ratio 0 never activates its target, and an
\* element that received an entry with a positive ratio is activated exactly
\* once over the whole run, re-scans included, and is not observed afterwards.
C2_ExactlyOnceThenUnobserved ==
  checkType = "new" =>
    /\ last.op \in {"deliver", "deliverStale"} => last.activated \subseteq last.positive
    /\ \A e \in Elements : acts[e] <= 1
    /\ \A e \in Elements : acts[e] >= 1 => e \notin observed

\* C3 as claimed: every visibility check but the first comes after at least
\* maxFrameCount frame callbacks that did not scan, re-scans or not.
C3_DebounceAlways ==
  (checkType = "old" /\ last.scanned /\ last.gap # -1) => last.gap >= maxFrameCount

\* C3 as amended: a visibility check made by a frame callback comes after at
\* least maxFrameCount frame callbacks that did not scan since the check before
\* it; the check a re-scan makes is immediate.
C3_DebounceBetweenFrameScans ==
  (checkType = "old" /\ last.scanned /\ last.op = "frame") => last.gap >= maxFrameCount

\* a frame callback has just scanned
C3_Witness ==
  checkType = "old" /\ last.scanned /\ last.op = "frame" /\ last.gap = maxFrameCount

\* C4: after a re-scan every eligible element not yet activated is in the
\* working set and observed or polled, and an element activated before the
\* re-scan is neither activated again nor tracked again.
C4_RescanTracksNewNotOld ==
  /\ \A e \in Elements : acts[e] <= 1
  /\ (last.op = "pageUpdated" /\ checkType \in {"old", "new"} /\ ~last.exc) =>
       \A e \in doc :
         /\ acts[e] = 0 =>
              /\ e \in ElsSet
              /\ checkType = "new" => e \in observed
              /\ checkType = "old" => rafPending > 0
         /\ (acts[e] >= 1 /\ e \notin last.activated) =>
              (e \notin ElsSet /\ e \notin observed)

\* C5 as claimed: an element inserted with a deferred source X, once updated
\* and no longer waiting for its load event, has src = X and no data-src.
C5_RoundTrip ==
  \A e \in Elements :
    (Markup(e).dsrc # NULL /\ Completed(e)) =>
      (elem[e].src = Markup(e).dsrc /\ elem[e].dsrc = NULL)

\* C5 as amended: the same for a non-empty deferred source X.
C5_RoundTripNonEmpty ==
  \A e \in Elements :
    (Truthy(Markup(e).dsrc) /\ Completed(e)) =>
      (elem[e].src = Markup(e).dsrc /\ elem[e].dsrc = NULL)

\* under 'old' or 'new', an element without the generic marker was updated and
\* its load event has fired
C5_Witness ==
  /\ checkType \in {"old", "new"}
  /\ \E e \in doc :
       /\ Truthy(Markup(e).dsrc) /\ Markup(e).dlazy = NULL
       /\ Completed(e) /\ ~elem[e].loading

\* C6: for an element that carries the generic marker, updating it twice
\* leaves the attributes that updating it once leaves; and updating again an
\* element already updated through the marker changes none of its attributes.
C6_UpdaterIdempotentOnMarker ==
  \A e \in doc :
    /\ elem[e].dlazy # NULL =>
         LET once == _updateElement(elem[e], tagName(e))
         IN  Attrs(_updateElement(once, tagName(e))) = Attrs(once)
    /\ elem[e].dlazyloaded # NULL =>
         Attrs(_updateElement(elem[e], tagName(e))) = Attrs(elem[e])

\* the updater has run more than once on a generic-marker element
C6_Witness ==
  \E e \in doc : Markup(e).dlazy # NULL /\ acts[e] = 2 /\ elem[e].dlazyloaded # NULL

\* C7: when the selector matches nothing, lazyLoad() and every re-scan end
\* without an error, with an empty working set and no frame callback pending.
C7_EmptySelectorNoOp ==
  (last.op \in {"lazyLoad", "pageUpdated"} /\ last.collected = {}) =>
    (~last.exc /\ els = <<>> /\ rafPending = 0)

\* C8 as claimed: when the initializing call returns under 'really-old' every
\* collected element with a deferred source has it as its live source, none
\* carries a deferred attribute, the working set is empty, nothing is pending.
C8_ReallyOldLoadsAll ==
  (checkType = "really-old" /\ last.op = "lazyLoad" /\ ~last.exc) =>
    /\ \A e \in last.collected :
         /\ Markup(e).dsrc # NULL => elem[e].src = Markup(e).dsrc
         /\ elem[e].dsrc = NULL /\ elem[e].dsrcset = NULL /\ elem[e].dlazy = NULL
    /\ els = <<>>
    /\ rafPending = 0 /\ observer = "undefined" /\ observed = {} /\ queued = <<>>

\* C8 as amended: the same, the live source being set for a non-empty
\* deferred source.
C8_ReallyOldLoadsNonEmpty ==
  (checkType = "really-old" /\ last.op = "lazyLoad" /\ ~last.exc) =>
    /\ \A e \in last.collected :
         /\ Truthy(Markup(e).dsrc) => elem[e].src = Markup(e).dsrc
         /\ Truthy(Markup(e).dsrcset) => elem[e].srcset = Markup(e).dsrcset
         /\ elem[e].dsrc = NULL /\ elem[e].dsrcset = NULL /\ elem[e].dlazy = NULL
    /\ els = <<>>
    /\ rafPending = 0 /\ observer = "undefined" /\ observed = {} /\ queued = <<>>

\* the initializing call has just loaded two collected elements, none in view
C8_Witness ==
  /\ checkType = "really-old" /\ last.op = "lazyLoad" /\ ~last.exc
  /\ Cardinality(last.collected) = 2
  /\ \E e \in last.collected : Truthy(Markup(e).dsrc) /\ ~InView(e, scrollY)

\* C9: the strategy selected is 'really-old' if event listening, animation
\* frames or the layout-geometry query is missing, else 'new' if the
\* intersection-observation API is there, else 'old'.
C9_StrategySelection ==
  last.op = "lazyLoad" =>
    checkType = IF ~caps.ael \/ ~caps.raf \/ ~caps.gbcr THEN "really-old"
                ELSE IF caps.io THEN "new"
                ELSE "old"

\* C10 as claimed: after a re-scan the strategy in use is the one the detector
\* selects for the capabilities at the time of the re-scan.
C10_RedetectedOnRescan ==
  last.op = "pageUpdated" => checkType = Detect(caps)

\* C10 as amended: after a re-scan the strategy in use is still the one the
\* detector selected for the capabilities at the time of the lazyLoad() call.
C10_DetectedOnceAtCall ==
  last.op = "pageUpdated" => checkType = Detect(callCaps)

\* a re-scan has run in an environment for which the detector would now
\* select another strategy
C10_Witness ==
  last.op = "pageUpdated" /\ Detect(caps) # Detect(callCaps)

\* C11: under 'old', after every full scan the working set is exactly the
\* elements of the working set scanned that the scan did not activate, in
\* their order, with no undefined slot left by the compaction.
C11_CompactionExact ==
  [][(checkType' = "old" /\ last'.scanned /\ ~last'.exc) =>
       LET before == IF last'.op = "frame" THEN els
                     ELSE _htmlCollectionToArray(last'.collected, 1)
           NotYetActivated(e) == e # UNDEF /\ e \notin last'.activated
       IN  els' = SelectSeq(before, NotYetActivated)]_vars

\* C12: under 'old', a pass of _setSrcs that returns schedules a further frame
\* callback if and only if an element reference remains in the working set;
\* a scan that activates every remaining element schedules none.
C12_RescheduleIffElementRemains ==
  (checkType = "old" /\ last.op \in {"lazyLoad", "pageUpdated", "frame"} /\ ~last.exc) =>
    (last.scheduled <=> ElsSet # {})

\* every element reference in the working set has been activated
AllActivated == checkType = "old" /\ \A e \in ElsSet : acts[e] >= 1

\* C13: under 'old', with frame callbacks run fairly and finitely many
\* re-scans, if from some point on every element of the working set has been
\* activated then from some point on no frame callback is pending.
C13_PollingStops ==
  (<>[](last.op # "pageUpdated") /\ <>[]AllActivated) => <>[](rafPending = 0)

\* the batch just delivered brought the remaining count to zero: every
\* tracked element has been activated and is no longer observed
CountReachedZero ==
  /\ checkType = "new" /\ last.op = "deliver" /\ last.activated # {}
  /\ observer = "active" /\ elsLength = 0 /\ observed = {}
  /\ \A e \in ElsSet : acts[e] >= 1

\* C14: under 'new', once the remaining count has reached zero the observer
\* is eventually disconnected (by the next callback, or by a re-scan).
C14_EventuallyDisconnected ==
  [](CountReachedZero => <>(observer = "disconnected" \/ last.op = "pageUpdated"))

\* the element was inserted with a deferred source or source-set and without
\* the generic marker
DeferredNoMarker(e) ==
  Markup(e).dlazy = NULL /\ (Markup(e).dsrc # NULL \/ Markup(e).dsrcset # NULL)

\* the deferred attributes of the element are as inserted, respectively gone
DeferredKept(e) ==
  elem[e].dsrc = Markup(e).dsrc /\ elem[e].dsrcset = Markup(e).dsrcset

DeferredStripped(e) == elem[e].dsrc = NULL /\ elem[e].dsrcset = NULL

\* an element updated once keeps its deferred attributes while its load
\* listener waits, and an updated element has lost them once the listener has
\* run
StrippedByLoadListener(e) ==
  /\ (acts[e] = 1 /\ elem[e].listener) => DeferredKept(e)
  /\ (acts[e] >= 1 /\ ~elem[e].listener) => DeferredStripped(e)

\* C15 as claimed: for an element with a deferred source or source-set and no
\* generic marker, under 'new' the deferred attributes stay until the load
\* listener strips them; under 'really-old' and under 'old' they are gone as
\* soon as the handler that updated the element returns.
C15_StrippedAtOnceWhenPolling ==
  \A e \in Elements :
    DeferredNoMarker(e) =>
      /\ checkType = "new" => StrippedByLoadListener(e)
      /\ (checkType \in {"really-old", "old"} /\ e \in last.activated) =>
           DeferredStripped(e)

\* C15 as amended: under 'new' and under 'old' the deferred attributes stay
\* until the load listener strips them; under 'really-old' they are gone as
\* soon as the handler that updated the element returns.
C15_StrippedOnLoadWhenPolling ==
  \A e \in Elements :
    DeferredNoMarker(e) =>
      /\ checkType \in {"new", "old"} => StrippedByLoadListener(e)
      /\ (checkType = "really-old" /\ e \in last.activated) =>
           (DeferredStripped(e) /\ ~elem[e].listener)

\* under 'old' a scan has just updated an element that keeps its deferred
\* attributes while its load listener waits, after the load event of another
\* element has stripped that element
C15_Witness ==
  /\ checkType = "old" /\ last.scanned
  /\ \E e1, e2 \in doc :
       /\ DeferredNoMarker(e1) /\ e1 \in last.activated
       /\ elem[e1].listener /\ DeferredKept(e1)
       /\ DeferredNoMarker(e2) /\ acts[e2] >= 1
       /\ ~elem[e2].listener /\ DeferredStripped(e2)

\* C16: a callback registered before a re-scan that runs after it changes
\* nothing of the new tracking state.  The frame callback that runs first
\* after a re-scan that left two callbacks pending is the older one; it
\* leaves the working set, the debounce counter and the remaining count as
\* they are, activates nothing and requests no frame.  A batch of entries of
\* the observer disconnected by the re-scan leaves the working set, the
\* remaining count and the observed targets as they are and activates no
\* element of the working set.
C16_StaleCallbackHarmless ==
  [][/\ (checkType = "old" /\ last.op = "pageUpdated" /\ rafPending = 2
          /\ last'.op = "frame") =>
          /\ els' = els /\ frameCount' = frameCount /\ elsLength' = elsLength
          /\ last'.activated = {} /\ ~last'.scheduled
     /\ last'.op = "deliverStale" =>
          /\ els' = els /\ elsLength' = elsLength /\ observed' = observed
          /\ last'.activated \cap ElsSet = {}]_vars

\* C17: under 'old' _updateElement is called at most once per element,
\* whatever frame callbacks and re-scans run.
C17_PollingActivatesOnce ==
  checkType = "old" => \A e \in Elements : acts[e] <= 1

\* a scan has just passed over an element in view that was updated before
\* the re-scan collected it again and whose load event has not fired
C17_Witness ==
  /\ checkType = "old" /\ last.scanned /\ ~last.exc
  /\ \E e \in ElsSet :
       /\ acts[e] = 1 /\ e \notin last.activated
       /\ InView(e, scrollY) /\ elem[e].listener /\ elem[e].loading

\* C18: once lazyLoad() has run, at most one frame callback of the polling
\* loop is pending, and the only observer that is connected and has targets
\* is the current one (every earlier one was disconnected by the re-scan
\* that replaced it, so its queued entries are all it has left).
C18_AtMostOneLive ==
  pc = "running" =>
    /\ rafPending <= 1
    /\ observed # {} => observer = "active"

\* C19: under 'old' no element leaves the working set without having been
\* activated: every element an initialization collects is in the working set
\* or activated when the initialization returns, and every element in the
\* working set before a frame callback is in the working set or activated
\* after it.  (No other step changes the working set, so between two
\* re-scans every collected element is tracked or activated.)
C19_OnlyActivatedLeave ==
  [][checkType' = "old" =>
       /\ last'.op \in {"lazyLoad", "pageUpdated"} =>
            \A e \in last'.collected : e \in ElsSet' \/ acts'[e] >= 1
       /\ last'.op = "frame" =>
            \A e \in ElsSet : e \in ElsSet' \/ acts'[e] >= 1
       /\ last'.op \notin {"lazyLoad", "pageUpdated", "frame"} => els' = els]_vars

\* a scan has just compacted a working set of two elements of which it
\* activated the first and kept the second
C19_Witness ==
  /\ checkType = "old" /\ last.scanned /\ ~last.exc
  /\ Cardinality(last.activated) = 1
  /\ \E e \in ElsSet : acts[e] = 0 /\ \E a \in last.activated : a < e
  /\ Len(els) = 1

\* C20: under 'new' the remaining count is never negative and is the number
\* of targets the current observer observes.
C20_CountIsObserved ==
  checkType = "new" =>
    (elsLength >= 0 /\ elsLength = Cardinality(observed))

====
